---- MODULE Spec2Model ----
(***************************************************************************)
(* A model of aem-cwv-helper.js: the cooperative yield scheduler           *)
(* (yieldUnlessUrgent / resolvePendingPromises), the chunked iteration     *)
(* engine (splitLongIteration) and the debounce-to-frame wrapper           *)
(* (debounceUiUpdate), run on a single-threaded event loop: one task at a  *)
(* time, a microtask checkpoint after every task and after every event     *)
(* listener, animation frames only while the page is visible.              *)
(***************************************************************************)
EXTENDS Integers, Sequences, FiniteSets, TLC

\* ---------------------------------------------------------------- bounds
MaxYields == 3        \* yieldUnlessUrgent() calls per run
MaxItems == 3         \* longest items array given to splitLongIteration
MaxClock == 3         \* largest value of performance.now()
MaxCalls == 3         \* calls to debounced wrappers per run
MaxJobs == 2          \* calls to the deferred-execution wrappers per run
MaxImages == 3        \* img elements in the document
MaxPrioritize == 2    \* prioritizeImages() calls per run
MaxRegs == 2          \* addEventListener() calls per run
MaxEvents == 1        \* DOM events dispatched per run
MaxFrames == 3        \* calls to the requestAnimationFrame polyfill per run
MaxTime == 50         \* largest value of new Date().getTime()

YieldIds == 1..MaxYields
EventTypes == {"visibilitychange", "pagehide"}

VARIABLES
  visibilityState,   \* document.visibilityState
  hasScheduler,      \* whether window.scheduler?.yield exists on this host
  promise,           \* state of the promise of each yieldUnlessUrgent() call
  kind,              \* how the caller awaits each call
  resolveCalls,      \* number of times each call's resolve() was invoked
  contRuns,          \* number of times each call's continuation ran
  pendingResolvers,  \* the Set, in insertion (= iteration) order
  listeners,         \* cleanup closures registered on document, per event
  rafQueue,          \* requested animation frame callbacks, oldest first
  timerQueue,        \* setTimeout callbacks, oldest first
  yieldQueue,        \* scheduler.yield() promises not yet settled
  microtasks,        \* the microtask queue
  dispatch,          \* listeners still to be invoked for the current event
  nextHandle,        \* next handle returned by requestAnimationFrame
  lastOp,            \* the step just taken (history)
  lastSweep,         \* the yields the latest sweep resumed (history)
  visibleCalls,      \* calls on a visible page since the last event (history)
  clock,             \* performance.now()
  iteration,         \* the frame of each splitLongIteration() call
  rafId,             \* the rafId of each debounced wrapper
  calls,             \* the calls made to debounced wrappers, oldest first
  jobs,              \* the calls made to the deferred wrappers, oldest first
  idleQueue,         \* requested idle callbacks, oldest first
  head,              \* the links appended to document.head, in order
  globalUrl,         \* the global binding `url` of the host page, if any
  pushes,            \* the calls made to the patched dl.push, oldest first
  dataLayer,         \* the calls the original push received, in order
  patched,           \* whether patchEventListeners() ran, and its pattern
  registry,          \* what the native addEventListener received, in order
  events,            \* the event objects the host has dispatched
  domDispatch,       \* listeners still to be invoked for the current event
  capture,           \* what each wrapped-listener invocation captured
  runs,              \* the invocations of original listeners, in order
  images,            \* loading / fetchpriority of each img of the document
  imgLog,            \* the prioritizeImages() calls made, oldest first
  last,              \* `last` of the requestAnimationFrame polyfill
  date,              \* new Date().getTime() as the polyfill last read it
  frameTimers        \* the setTimeout calls the polyfill made, oldest first

vars == <<lastSweep, visibleCalls, visibilityState, hasScheduler, promise, kind, resolveCalls,
          contRuns, pendingResolvers, listeners, rafQueue, timerQueue,
          yieldQueue, microtasks, dispatch, nextHandle, lastOp, clock,
          iteration, rafId, calls, jobs, idleQueue, head, globalUrl, pushes,
          dataLayer, patched, registry, events, domDispatch, capture, runs,
          images, imgLog, last, date, frameTimers>>

iterVars == <<clock, iteration>>
debounceVars == <<rafId, calls>>
deferVars == <<jobs, idleQueue, head, globalUrl>>
patchVars == <<pushes, dataLayer>>
listenVars == <<patched, registry, events, domDispatch, capture, runs>>
imageVars == <<images, imgLog>>
frameVars == <<last, date, frameTimers>>
pageVars == <<patchVars, listenVars, imageVars, frameVars>>
appVars == <<deferVars, pageVars>>

\* ---------------------------------------------------------------- helpers
Range(s) == {s[n] : n \in 1..Len(s)}

Without(s, x) == SelectSeq(s, LAMBDA e : e # x)

Min(S) == CHOOSE x \in S : \A y \in S : x <= y

RECURSIVE MapSeq(_, _)
MapSeq(Op(_), s) == IF s = <<>> THEN <<>>
                    ELSE <<Op(Head(s))>> \o MapSeq(Op, Tail(s))

NoOp == [op |-> "none", y |-> 0, n |-> 0]

\* A new task (host callback, event, page code) starts only when the stack
\* is empty, the microtask queue is drained and no event is mid-dispatch.
\* No splitLongIteration() frame is on the stack (between two awaits).
StackEmpty == \A k \in DOMAIN iteration : iteration[k].pc # "check"

Idle ==
  /\ microtasks = <<>>
  /\ dispatch.queue = <<>>
  /\ domDispatch.queue = <<>>
  /\ StackEmpty

FreeIds == {i \in YieldIds : promise[i] = "none"}

IterIds == {1, 2}

\* Yields the started iterations may still request; page code leaves that
\* many ids free.
Need(r) == IF r.pc = "check" THEN Len(r.items) - r.idx + 1
           ELSE IF r.pc = "await" THEN Len(r.items) - r.idx
           ELSE 0
RECURSIVE SumNeed(_)
SumNeed(S) == IF S = {} THEN 0
              ELSE LET k == CHOOSE j \in S : TRUE
                   IN Need(iteration[k]) + SumNeed(S \ {k})
Reserved == SumNeed(IterIds)
Spare == Cardinality(FreeIds) - Reserved > 0

\* ------------------------------------------------- promises and awaiting
\* Microtask ticks between resolve() and the caller's continuation, beyond
\* the reaction job itself.  "direct" callers await yieldUnlessUrgent();
\* the others await the async function splitLongTask(), whose own promise
\* is resolved by one more job.
HopsPending(k) == IF k \in {"direct", "again"} THEN 0 ELSE 1

\* The same when the promise is already resolved as the executor returns:
\* splitLongTask() then adopts it through an extra thenable job.
HopsSettled(k) == IF k \in {"direct", "again"} THEN 0 ELSE 2

\* resolve() of a yield promise: only a pending promise changes state.
Resolved(P, S) ==
  [i \in YieldIds |-> IF i \in S /\ P[i] = "pending" THEN "resolved" ELSE P[i]]

\* (mutant) resolve() queues a reaction job on every call.
ReactionsOnEveryCall(P, K, rs) ==
  MapSeq(LAMBDA r : [y |-> r, hops |-> HopsPending(K[r])], rs)

\* The reaction jobs resolve() queues, in call order: one per promise that
\* was still pending; resolving a settled promise queues nothing.
Reactions(P, K, rs) ==
  MapSeq(LAMBDA r : [y |-> r, hops |-> HopsPending(K[r])],
         SelectSeq(rs, LAMBDA r : P[r] = "pending"))

CountCalls(C, S) == [i \in YieldIds |-> IF i \in S THEN C[i] + 1 ELSE C[i]]

\* ----------------------------------------------- resolvePendingPromises
\* for (const resolve of pendingResolvers) resolve(); pendingResolvers.clear()
\* given the promise map P, the registry rs and the microtask queue mq.
\* (mutant) the Set is cleared before it is iterated: nothing is resolved.
SweepPromiseAfterClear(P, rs) == P
\* (mutant) the loop stops after the first resolver.
SweepPromiseFirstOnly(P, rs) ==
  Resolved(P, IF rs = <<>> THEN {} ELSE {Head(rs)})
\* (mutant) the Set is not cleared after the loop.
SweepRegistryKept(rs) == rs
SweepPromise(P, rs) == Resolved(P, Range(rs))
\* The yields a sweep over registry rs resumes: those still pending.
Swept(P, rs) == {i \in Range(rs) : P[i] = "pending"}
\* (mutant) the Set is iterated from its newest entry to its oldest.
SweepMicrotasksNewestFirst(P, K, rs, mq) ==
  LET r == Reactions(P, K, rs)
  IN mq \o [n \in 1..Len(r) |-> r[Len(r) + 1 - n]]
SweepMicrotasks(P, K, rs, mq) == mq \o Reactions(P, K, rs)
SweepRegistry(rs) == <<>>

\* ------------------------------------------------------ yieldUnlessUrgent
\* document.addEventListener('visibilitychange', cleanup);
\* document.addEventListener('pagehide', cleanup);
\* (mutant) the closure is registered for visibilitychange only.
AddListenersOneEvent(L, i) ==
  [L EXCEPT !["visibilitychange"] = Append(@, i)]
AddListeners(L, i) == [t \in EventTypes |-> Append(L[t], i)]

\* The call with id i made by a caller of kind k, on top of microtask queue
\* mq.  Sets every variable of the yield scheduler except contRuns,
\* timerQueue, visibilityState, hasScheduler, dispatch and lastOp.
YieldVisible(i, k, mq) ==
  /\ promise' = [promise EXCEPT ![i] = "pending"]
  /\ kind' = [kind EXCEPT ![i] = k]
  /\ pendingResolvers' = Append(pendingResolvers, i)
  /\ listeners' = AddListeners(listeners, i)
  /\ IF hasScheduler
       THEN /\ yieldQueue' = yieldQueue \cup {i}
            /\ UNCHANGED <<rafQueue, nextHandle>>
       ELSE /\ rafQueue' = Append(rafQueue,
                                  [h |-> nextHandle, kind |-> "yield", id |-> i])
            /\ nextHandle' = nextHandle + 1
            /\ UNCHANGED yieldQueue
  /\ microtasks' = mq
  /\ visibleCalls' = visibleCalls + 1
  /\ UNCHANGED <<resolveCalls, lastSweep>>

YieldHidden(i, k, mq) ==
  LET P == [promise EXCEPT ![i] = "pending"]
      K == [kind EXCEPT ![i] = k]
      rs == Append(pendingResolvers, i)
  IN /\ promise' = SweepPromise(P, rs)
     /\ kind' = K
     /\ pendingResolvers' = SweepRegistry(rs)
     /\ resolveCalls' = CountCalls(resolveCalls, Range(rs))
     /\ lastSweep' = Swept(P, rs)
     /\ microtasks' = SweepMicrotasks(P, K, Without(rs, i), mq)
                        \o <<[y |-> i, hops |-> HopsSettled(k)]>>
     /\ UNCHANGED <<listeners, rafQueue, nextHandle, yieldQueue, visibleCalls>>

yieldUnlessUrgent(i, k, mq) ==
  IF visibilityState = "visible" THEN YieldVisible(i, k, mq)
                                 ELSE YieldHidden(i, k, mq)

\* ------------------------------------------------------------- page code
\* A task of the page calls yieldUnlessUrgent() (kind "again": its
\* continuation yields once more, as "direct", while ids are left) or
\* splitLongTask() (kind "split") and awaits the result.
CallYield(k) ==
  /\ UNCHANGED <<iterVars, debounceVars, appVars>>
  /\ Idle
  /\ Spare
  /\ LET i == Min(FreeIds)
     IN /\ yieldUnlessUrgent(i, k, microtasks)
        /\ lastOp' = [op |-> IF visibilityState = "visible"
                               THEN "yieldVisible" ELSE "yieldHidden",
                      y |-> i, n |-> Len(pendingResolvers)]
  /\ UNCHANGED <<visibilityState, hasScheduler, contRuns, timerQueue, dispatch>>

\* ------------------------------------------------------------------ host
\* The next animation frame callback runs; frames are not produced while
\* the page is hidden.  A yield's callback only arms a zero-delay timer.
FrameFireYield ==
  /\ UNCHANGED <<iterVars, debounceVars, appVars>>
  /\ Idle
  /\ visibilityState = "visible"
  /\ rafQueue # <<>>
  /\ Head(rafQueue).kind = "yield"
  /\ rafQueue' = Tail(rafQueue)
  /\ timerQueue' = Append(timerQueue, [kind |-> "yield", id |-> Head(rafQueue).id,
                                       delay |-> 0])
  /\ lastOp' = [op |-> "frame", y |-> Head(rafQueue).id, n |-> 0]
  /\ UNCHANGED <<lastSweep, visibleCalls, visibilityState, hasScheduler, promise, kind, resolveCalls,
                 contRuns, pendingResolvers, listeners, yieldQueue, microtasks,
                 dispatch, nextHandle>>

\* (mutant) the timer callback deletes the resolver and does not call it.
TimerDeleteOnly(P, i) == P
\* (mutant) the timer callback also unregisters the closure of its call.
TimerListenersRemoved(L, i) == [t \in EventTypes |-> Without(L[t], i)]
\* The timer callback of yield i removes no lifecycle listener.
TimerListeners(L, i) == L
\* resolve() in the timer callback of yield i.
TimerResolved(P, i) == Resolved(P, {i})

\* The zero-delay timer of a yield fires:
\* pendingResolvers.delete(resolve); resolve();
TimerFireYield ==
  /\ UNCHANGED <<iterVars, debounceVars, appVars>>
  /\ Idle
  /\ timerQueue # <<>>
  /\ Head(timerQueue).kind = "yield"
  /\ LET i == Head(timerQueue).id
     IN /\ pendingResolvers' = Without(pendingResolvers, i)
        /\ promise' = TimerResolved(promise, i)
        /\ listeners' = TimerListeners(listeners, i)
        /\ resolveCalls' = CountCalls(resolveCalls, {i})
        /\ microtasks' = microtasks \o Reactions(promise, kind, <<i>>)
        /\ lastOp' = [op |-> "timer", y |-> i, n |-> 0]
  /\ timerQueue' = Tail(timerQueue)
  /\ UNCHANGED <<lastSweep, visibleCalls, visibilityState, hasScheduler, kind,
                 contRuns, rafQueue, yieldQueue, dispatch, nextHandle>>

\* A scheduler.yield() promise settles: .then(resolve) calls resolve() and
\* leaves pendingResolvers alone.  The host picks the order.
SchedulerYieldFire(i) ==
  /\ UNCHANGED <<iterVars, debounceVars, appVars>>
  /\ Idle
  /\ i \in yieldQueue
  /\ yieldQueue' = yieldQueue \ {i}
  /\ promise' = Resolved(promise, {i})
  /\ resolveCalls' = CountCalls(resolveCalls, {i})
  /\ microtasks' = microtasks \o Reactions(promise, kind, <<i>>)
  /\ lastOp' = [op |-> "native", y |-> i, n |-> 0]
  /\ UNCHANGED <<lastSweep, visibleCalls, visibilityState, hasScheduler, kind, contRuns,
                 pendingResolvers, listeners, rafQueue, timerQueue, dispatch,
                 nextHandle>>

\* The host dispatches a lifecycle event on document: visibilitychange
\* follows a change of visibilityState; pagehide leaves it as it is.  The
\* listeners to invoke are those registered when the dispatch starts.
LifecycleEvent(t) ==
  /\ UNCHANGED <<iterVars, debounceVars, appVars>>
  /\ Idle
  /\ visibilityState' = IF t = "visibilitychange"
                          THEN (IF visibilityState = "visible" THEN "hidden"
                                                               ELSE "visible")
                          ELSE visibilityState
  /\ dispatch' = [type |-> t, queue |-> listeners[t], ran |-> 0]
  /\ lastOp' = [op |-> t, y |-> 0, n |-> Len(listeners[t])]
  /\ visibleCalls' = 0
  /\ UNCHANGED <<lastSweep, hasScheduler, promise, kind, resolveCalls, contRuns,
                 pendingResolvers, listeners, rafQueue, timerQueue, yieldQueue,
                 microtasks, nextHandle>>

\* document.removeEventListener('visibilitychange', cleanup);
\* document.removeEventListener('pagehide', cleanup);
\* (mutant) only the visibilitychange registration is removed.
RemoveListenersOneEvent(L, c) ==
  [L EXCEPT !["visibilitychange"] = Without(@, c)]
RemoveListeners(L, c) == [t \in EventTypes |-> Without(L[t], c)]

\* The next listener of the event being dispatched is invoked, unless it
\* was removed meanwhile.  The listener is the cleanup closure of a call:
\* it removes itself from both events, then runs resolvePendingPromises().
cleanup ==
  /\ UNCHANGED <<iterVars, debounceVars, appVars>>
  /\ dispatch.queue # <<>>
  /\ microtasks = <<>>
  /\ StackEmpty
  /\ LET c == Head(dispatch.queue)
     IN IF c \in Range(listeners[dispatch.type])
          THEN /\ listeners' = RemoveListeners(listeners, c)
               /\ promise' = SweepPromise(promise, pendingResolvers)
               /\ resolveCalls' = CountCalls(resolveCalls, Range(pendingResolvers))
               /\ microtasks' = SweepMicrotasks(promise, kind, pendingResolvers,
                                                microtasks)
               /\ pendingResolvers' = SweepRegistry(pendingResolvers)
               /\ lastSweep' = Swept(promise, pendingResolvers)
               /\ dispatch' = [dispatch EXCEPT !.queue = Tail(@), !.ran = @ + 1]
               /\ lastOp' = [op |-> "cleanup", y |-> c,
                             n |-> Cardinality({i \in YieldIds :
                                                  promise[i] = "pending"})]
          ELSE /\ dispatch' = [dispatch EXCEPT !.queue = Tail(@)]
               /\ lastOp' = [op |-> "skipped", y |-> c, n |-> 0]
               /\ UNCHANGED <<listeners, promise, resolveCalls, microtasks,
                              pendingResolvers, lastSweep>>
  /\ UNCHANGED <<visibilityState, hasScheduler, kind, contRuns, rafQueue,
                 timerQueue, yieldQueue, nextHandle, visibleCalls>>

\* --------------------------------------------------------------- microtasks
\* The oldest microtask runs.  A job that only forwards the resolution to
\* the promise of splitLongTask() queues the next job; the last job is the
\* caller's continuation.
Forward ==
  /\ UNCHANGED <<iterVars, debounceVars, appVars>>
  /\ microtasks # <<>>
  /\ StackEmpty
  /\ Head(microtasks).hops > 0
  /\ microtasks' = Append(Tail(microtasks),
                          [Head(microtasks) EXCEPT !.hops = @ - 1])
  /\ lastOp' = [op |-> "forward", y |-> Head(microtasks).y, n |-> 0]
  /\ UNCHANGED <<lastSweep, visibleCalls, visibilityState, hasScheduler, promise, kind, resolveCalls,
                 contRuns, pendingResolvers, listeners, rafQueue, timerQueue,
                 yieldQueue, dispatch, nextHandle>>

\* The continuation of a caller that does nothing more with the scheduler.
Continue ==
  /\ UNCHANGED <<iterVars, debounceVars, appVars>>
  /\ microtasks # <<>>
  /\ StackEmpty
  /\ Head(microtasks).hops = 0
  /\ LET i == Head(microtasks).y
     IN /\ kind[i] \in {"direct", "split"} \/ (kind[i] = "again" /\ ~Spare)
        /\ contRuns' = [contRuns EXCEPT ![i] = @ + 1]
        /\ lastOp' = [op |-> "continue", y |-> i, n |-> 0]
  /\ microtasks' = Tail(microtasks)
  /\ UNCHANGED <<lastSweep, visibleCalls, visibilityState, hasScheduler, promise, kind, resolveCalls,
                 pendingResolvers, listeners, rafQueue, timerQueue, yieldQueue,
                 dispatch, nextHandle>>

\* The continuation of a caller that yields again as soon as it is resumed.
ContinueAndYield ==
  /\ UNCHANGED <<iterVars, debounceVars, appVars>>
  /\ microtasks # <<>>
  /\ StackEmpty
  /\ Head(microtasks).hops = 0
  /\ LET i == Head(microtasks).y
     IN /\ kind[i] = "again"
        /\ Spare
        /\ contRuns' = [contRuns EXCEPT ![i] = @ + 1]
        /\ yieldUnlessUrgent(Min(FreeIds), "direct", Tail(microtasks))
        /\ lastOp' = [op |-> IF visibilityState = "visible"
                               THEN "reyieldVisible" ELSE "reyieldHidden",
                      y |-> Min(FreeIds), n |-> Len(pendingResolvers)]
  /\ UNCHANGED <<visibilityState, hasScheduler, timerQueue, dispatch>>

\* ------------------------------------------------------ splitLongIteration

\* The arrays handed to splitLongIteration: distinct items, ascending or
\* descending, of every length up to MaxItems.
ItemSeqs ==
  {[j \in 1..n |-> j] : n \in 0..MaxItems}
    \cup {[j \in 1..n |-> n + 1 - j] : n \in 0..MaxItems}

\* The arrays handed to concurrent calls.
ShortItemSeqs == {[j \in 1..n |-> j] : n \in 1..(MaxItems - 1)}

\* limit and deadline are numbers or Infinity.
Infinity == [fin |-> FALSE, ms |-> 0]
Limits == {[fin |-> TRUE, ms |-> n] : n \in 0..2} \cup {Infinity}

\* performance.now() + limit
Plus(now, l) == IF l.fin THEN [fin |-> TRUE, ms |-> now + l.ms] ELSE Infinity

\* The limits handed to concurrent calls.
ShortLimits == {[fin |-> TRUE, ms |-> n] : n \in 1..2}

\* (mutant) the deadline test is strict.
CrossedStrictly(now, d) == d.fin /\ now > d.ms

\* performance.now() >= deadline
Crossed(now, d) == d.fin /\ now >= d.ms

\* Time one call of fn may take.
Costs == {0, 1}

NewIteration ==
  [pc |-> "new", items |-> <<>>, limit |-> Infinity, bad |-> 0, idx |-> 0,
   deadline |-> Infinity, fnLog |-> <<>>, yieldedAt |-> <<>>, awaiting |-> 0]

\* (mutant) an error thrown by fn is swallowed and the loop goes on.
FnCaught(r) ==
  [r EXCEPT !.fnLog = Append(@, r.items[r.idx]), !.idx = @ + 1, !.pc = "check"]

\* The loop moves on without calling fn.
FnSkipped(r) == [r EXCEPT !.idx = @ + 1, !.pc = "check"]

\* fn(item) for the current item of frame r: fn records the item; it throws
\* on the item r.bad, which rejects the promise of the async function, and
\* otherwise the loop moves to the next item.
Fn(r) ==
  IF r.items[r.idx] = r.bad
    THEN [r EXCEPT !.fnLog = Append(@, r.items[r.idx]), !.pc = "rejected"]
    ELSE [r EXCEPT !.fnLog = Append(@, r.items[r.idx]), !.idx = @ + 1,
                   !.pc = "check"]

\* (mutant) the item the yield was awaited for is lost on resumption.
ResumedSkipping(r, now) ==
  FnSkipped([r EXCEPT !.deadline = Plus(now, r.limit), !.awaiting = 0])

\* deadline = performance.now() + limit, then fn(item), after the await.
Resumed(r, now) == Fn([r EXCEPT !.deadline = Plus(now, r.limit), !.awaiting = 0])

\* (mutant) one deadline is shared by all the iterations under way.
AfterResumeShared(frames, k, now) ==
  [j \in DOMAIN frames |->
     IF j = k THEN Resumed(frames[j], now)
     ELSE IF frames[j].pc \in {"check", "await"}
       THEN [frames[j] EXCEPT !.deadline = Plus(now, frames[k].limit)]
     ELSE frames[j]]

\* deadline is a local of each call: resuming call k touches its frame
\* only.
AfterResume(frames, k, now) == [frames EXCEPT ![k] = Resumed(frames[k], now)]

\* Page code calls splitLongIteration(its, fn, lim), fn throwing on item b.
splitLongIteration(k, its, lim, b) ==
  /\ Idle
  /\ iteration[k].pc = "new"
  /\ \A j \in IterIds : j < k => iteration[j].pc # "new"
  /\ Len(its) + Reserved <= Cardinality(FreeIds)
  /\ iteration' = [iteration EXCEPT ![k] =
                     [NewIteration EXCEPT !.pc = "check", !.items = its,
                                          !.limit = lim, !.bad = b, !.idx = 1,
                                          !.deadline = Plus(clock, lim)]]
  /\ lastOp' = [op |-> "iterate", y |-> 0, n |-> k]
  /\ UNCHANGED <<lastSweep, visibleCalls, visibilityState, hasScheduler, promise, kind, resolveCalls,
                 contRuns, pendingResolvers, listeners, rafQueue, timerQueue,
                 yieldQueue, microtasks, dispatch, nextHandle, clock,
                 debounceVars, appVars>>

\* The for loop is exhausted: the async function returns.
IterDone(k) ==
  /\ iteration[k].pc = "check"
  /\ iteration[k].idx > Len(iteration[k].items)
  /\ iteration' = [iteration EXCEPT ![k].pc = "done"]
  /\ lastOp' = [op |-> "iterDone", y |-> 0, n |-> k]
  /\ UNCHANGED <<lastSweep, visibleCalls, visibilityState, hasScheduler, promise, kind, resolveCalls,
                 contRuns, pendingResolvers, listeners, rafQueue, timerQueue,
                 yieldQueue, microtasks, dispatch, nextHandle, clock,
                 debounceVars, appVars>>

\* The deadline is crossed: await splitLongTask().
IterYield(k) ==
  /\ iteration[k].pc = "check"
  /\ iteration[k].idx <= Len(iteration[k].items)
  /\ Crossed(clock, iteration[k].deadline)
  /\ FreeIds # {}
  /\ yieldUnlessUrgent(Min(FreeIds), "iter", microtasks)
  /\ iteration' = [iteration EXCEPT ![k].pc = "await",
                                    ![k].awaiting = Min(FreeIds),
                                    ![k].yieldedAt = Append(@, iteration[k].idx)]
  /\ lastOp' = [op |-> IF visibilityState = "visible"
                         THEN "iterYieldVisible" ELSE "iterYieldHidden",
                y |-> Min(FreeIds), n |-> k]
  /\ UNCHANGED <<visibilityState, hasScheduler, contRuns, timerQueue, dispatch,
                 clock, debounceVars, appVars>>

\* The deadline is not crossed: fn(item) right away.
IterCall(k) ==
  /\ iteration[k].pc = "check"
  /\ iteration[k].idx <= Len(iteration[k].items)
  /\ ~Crossed(clock, iteration[k].deadline)
  /\ \E c \in Costs :
       /\ clock + c <= MaxClock
       /\ clock' = clock + c
  /\ iteration' = [iteration EXCEPT ![k] = Fn(iteration[k])]
  /\ lastOp' = [op |-> "iterCall", y |-> 0, n |-> k]
  /\ UNCHANGED <<lastSweep, visibleCalls, visibilityState, hasScheduler, promise, kind, resolveCalls,
                 contRuns, pendingResolvers, listeners, rafQueue, timerQueue,
                 yieldQueue, microtasks, dispatch, nextHandle, debounceVars, appVars>>

\* The continuation of an iteration: the awaited splitLongTask() promise is
\* fulfilled, the deadline is recomputed and fn runs on the pending item.
IterResume ==
  /\ microtasks # <<>>
  /\ StackEmpty
  /\ Head(microtasks).hops = 0
  /\ kind[Head(microtasks).y] = "iter"
  /\ LET i == Head(microtasks).y
         k == CHOOSE j \in IterIds : iteration[j].awaiting = i
     IN /\ contRuns' = [contRuns EXCEPT ![i] = @ + 1]
        /\ iteration' = AfterResume(iteration, k, clock)
        /\ lastOp' = [op |-> "iterResume", y |-> i, n |-> k]
  /\ \E c \in Costs :
       /\ clock + c <= MaxClock
       /\ clock' = clock + c
  /\ microtasks' = Tail(microtasks)
  /\ UNCHANGED <<lastSweep, visibleCalls, visibilityState, hasScheduler, promise, kind, resolveCalls,
                 pendingResolvers, listeners, rafQueue, timerQueue, yieldQueue,
                 dispatch, nextHandle, debounceVars, appVars>>

\* Time passes between tasks.
Tick ==
  /\ Idle
  /\ clock < MaxClock
  /\ clock' = clock + 1
  /\ lastOp' = [op |-> "tick", y |-> 0, n |-> 0]
  /\ UNCHANGED <<lastSweep, visibleCalls, visibilityState, hasScheduler, promise, kind, resolveCalls,
                 contRuns, pendingResolvers, listeners, rafQueue, timerQueue,
                 yieldQueue, microtasks, dispatch, nextHandle, iteration,
                 debounceVars, appVars>>

\* -------------------------------------------------------- debounceUiUpdate
\* The wrappers made by debounceUiUpdate(fn), each with its own rafId.
WrapperIds == {1, 2}
ArgValues == {"a", "b"}

\* What fn returns for the arguments it is given by wrapper w.
Result(w, a) == [by |-> w, of |-> a]

\* (mutant) the previous frame request is left in place.
NotCancelled(q, h) == q

\* cancelAnimationFrame(h): the request with that handle, if still queued,
\* is dropped; any other handle (undefined, already fired) is ignored.
Cancelled(q, h) == SelectSeq(q, LAMBDA e : e.h # h)

\* (mutant) rafId is shared by all the wrappers.
SetRafIdShared(ids, w, h) == [x \in DOMAIN ids |-> h]

\* rafId = requestAnimationFrame(...) in the closure of wrapper w.
SetRafId(ids, w, h) == [ids EXCEPT ![w] = h]

\* Page code calls the wrapper w with arguments a.  (superseded records
\* that a later call on the same wrapper came before the frame.)
wrapped(w, a) ==
  /\ Idle
  /\ Len(calls) < MaxCalls
  /\ rafQueue' = Append(Cancelled(rafQueue, rafId[w]),
                        [h |-> nextHandle, kind |-> "debounce",
                         id |-> Len(calls) + 1])
  /\ rafId' = SetRafId(rafId, w, nextHandle)
  /\ nextHandle' = nextHandle + 1
  /\ calls' = Append([c \in 1..Len(calls) |->
                        IF calls[c].w = w /\ calls[c].ran = 0
                          THEN [calls[c] EXCEPT !.superseded = TRUE]
                          ELSE calls[c]],
                     [w |-> w, args |-> a, state |-> "pending",
                      value |-> "none", ran |-> 0, superseded |-> FALSE])
  /\ lastOp' = [op |-> "wrapped", y |-> 0, n |-> Len(calls) + 1]
  /\ UNCHANGED <<lastSweep, visibleCalls, visibilityState, hasScheduler, promise, kind, resolveCalls,
                 contRuns, pendingResolvers, listeners, timerQueue, yieldQueue,
                 microtasks, dispatch, iterVars, appVars>>

\* The frame callback of a call runs: resolve(fn(...args)).
FrameFireDebounce ==
  /\ Idle
  /\ visibilityState = "visible"
  /\ rafQueue # <<>>
  /\ Head(rafQueue).kind = "debounce"
  /\ LET c == Head(rafQueue).id
     IN /\ calls' = [calls EXCEPT ![c].ran = @ + 1,
                                  ![c].state = "resolved",
                                  ![c].value = Result(calls[c].w, calls[c].args)]
        /\ lastOp' = [op |-> "frameDebounce", y |-> 0, n |-> c]
  /\ rafQueue' = Tail(rafQueue)
  /\ UNCHANGED <<lastSweep, visibleCalls, visibilityState, hasScheduler, promise, kind, resolveCalls,
                 contRuns, pendingResolvers, listeners, timerQueue, yieldQueue,
                 microtasks, dispatch, nextHandle, rafId, iterVars, appVars>>

\* -------------------------------------------------- deferred wrappers
\* callCostlyApi, callCostlyUiApi, performAsyncUiUpdate (afterNextPaint),
\* removeDomNode and prefetchResources.  fn either returns or throws.

\* The arrays handed to prefetchResources.
UrlSeqs == {<<>>, <<"/a">>, <<"/a", "/b">>}

\* What fn returns in the call with index j.
FnResult(j) == [fn |-> j]
NoValue == [fn |-> 0]

\* (mutant) fn is called right away and its result handed to the host.
NewJobEager(api, throws) ==
  [api |-> api, throws |-> throws, urls |-> <<>>, state |-> "pending",
   value |-> NoValue, ran |-> 1, ranIn |-> "sync", inner |-> "none",
   winner |-> "none", frameFired |-> FALSE, resolveCalls |-> 0,
   display |-> "block", attached |-> TRUE, uncaught |-> FALSE]

\* The frame of a wrapper call as it returns its promise: fn has not run.
NewJob(api, throws) ==
  [api |-> api, throws |-> throws, urls |-> <<>>, state |-> "pending",
   value |-> NoValue, ran |-> 0, ranIn |-> "none", inner |-> "none",
   winner |-> "none", frameFired |-> FALSE, resolveCalls |-> 0,
   display |-> "block", attached |-> TRUE, uncaught |-> FALSE]

\* () => { resolve(fn()); } run by the host: when fn throws, resolve is
\* never reached and the exception leaves the callback uncaught.
Invoked(r, j, where) ==
  IF r.throws
    THEN [r EXCEPT !.ran = @ + 1, !.ranIn = where, !.uncaught = TRUE]
    ELSE [r EXCEPT !.ran = @ + 1, !.ranIn = where, !.state = "resolved",
                   !.value = FnResult(j)]

\* return fn() after the await in the async function afterNextPaint: a
\* throw rejects the promise of the async function.
InvokedAsync(r, j, where) ==
  IF r.throws
    THEN [r EXCEPT !.ran = @ + 1, !.ranIn = where, !.state = "rejected"]
    ELSE [r EXCEPT !.ran = @ + 1, !.ranIn = where, !.state = "resolved",
                   !.value = FnResult(j)]

\* callCostlyApi(fn): window.requestIdleCallback(() => resolve(fn()))
callCostlyApi(throws) ==
  /\ Idle
  /\ Len(jobs) < MaxJobs
  /\ jobs' = Append(jobs, NewJob("callCostlyApi", throws))
  /\ idleQueue' = Append(idleQueue, Len(jobs) + 1)
  /\ lastOp' = [op |-> "callCostlyApi", y |-> 0, n |-> Len(jobs) + 1]
  /\ UNCHANGED <<lastSweep, visibleCalls, visibilityState, hasScheduler, promise, kind, resolveCalls,
                 contRuns, pendingResolvers, listeners, rafQueue, timerQueue,
                 yieldQueue, microtasks, dispatch, nextHandle, iterVars,
                 debounceVars, pageVars, head, globalUrl>>

\* callCostlyUiApi(fn): window.requestAnimationFrame(() => resolve(fn()))
callCostlyUiApi(throws) ==
  /\ Idle
  /\ Len(jobs) < MaxJobs
  /\ jobs' = Append(jobs, NewJob("callCostlyUiApi", throws))
  /\ rafQueue' = Append(rafQueue, [h |-> nextHandle, kind |-> "ui",
                                   id |-> Len(jobs) + 1])
  /\ nextHandle' = nextHandle + 1
  /\ lastOp' = [op |-> "callCostlyUiApi", y |-> 0, n |-> Len(jobs) + 1]
  /\ UNCHANGED <<lastSweep, visibleCalls, visibilityState, hasScheduler, promise, kind, resolveCalls,
                 contRuns, pendingResolvers, listeners, timerQueue, yieldQueue,
                 microtasks, dispatch, iterVars, debounceVars, pageVars, idleQueue, head,
                 globalUrl>>

\* (mutant) the 100 ms fallback timer is not armed.
PaintTimersNoFallback(q, j) == q

\* window.setTimeout(resolve, 100) in afterNextPaint.
PaintTimers(q, j) == Append(q, [kind |-> "timeout100", id |-> j, delay |-> 100])

\* performAsyncUiUpdate(fn) = afterNextPaint(() => fn()): the executor arms
\* the 100 ms timer and requests a frame, then the function awaits.
performAsyncUiUpdate(throws) ==
  /\ Idle
  /\ Len(jobs) < MaxJobs
  /\ jobs' = Append(jobs, [NewJob("performAsyncUiUpdate", throws)
                             EXCEPT !.inner = "pending"])
  /\ timerQueue' = PaintTimers(timerQueue, Len(jobs) + 1)
  /\ rafQueue' = Append(rafQueue, [h |-> nextHandle, kind |-> "paint",
                                   id |-> Len(jobs) + 1])
  /\ nextHandle' = nextHandle + 1
  /\ lastOp' = [op |-> "performAsyncUiUpdate", y |-> 0, n |-> Len(jobs) + 1]
  /\ UNCHANGED <<lastSweep, visibleCalls, visibilityState, hasScheduler, promise, kind, resolveCalls,
                 contRuns, pendingResolvers, listeners, yieldQueue, microtasks,
                 dispatch, iterVars, debounceVars, pageVars, idleQueue, head, globalUrl>>

\* (mutant) the node is detached at once and never hidden.
RemoveStartDetaching(r) == [r EXCEPT !.attached = FALSE]

\* el.style.display = 'none' before removeDomNode defers the rest.
RemoveStart(r) == [r EXCEPT !.display = "none"]

\* removeDomNode(el): hide, then callCostlyApi(() => el.remove()).
removeDomNode ==
  /\ Idle
  /\ Len(jobs) < MaxJobs
  /\ jobs' = Append(jobs, RemoveStart(NewJob("removeDomNode", FALSE)))
  /\ idleQueue' = Append(idleQueue, Len(jobs) + 1)
  /\ lastOp' = [op |-> "removeDomNode", y |-> 0, n |-> Len(jobs) + 1]
  /\ UNCHANGED <<lastSweep, visibleCalls, visibilityState, hasScheduler, promise, kind, resolveCalls,
                 contRuns, pendingResolvers, listeners, rafQueue, timerQueue,
                 yieldQueue, microtasks, dispatch, nextHandle, iterVars,
                 debounceVars, pageVars, head, globalUrl>>

\* A script of the page declares a global named url.
DefineGlobalUrl ==
  /\ Idle
  /\ globalUrl = "unbound"
  /\ globalUrl' = "/x"
  /\ lastOp' = [op |-> "defineUrl", y |-> 0, n |-> 0]
  /\ UNCHANGED <<lastSweep, visibleCalls, visibilityState, hasScheduler, promise, kind, resolveCalls,
                 contRuns, pendingResolvers, listeners, rafQueue, timerQueue,
                 yieldQueue, microtasks, dispatch, nextHandle, iterVars,
                 debounceVars, pageVars, jobs, idleQueue, head>>

\* prefetchResources(urls): one link is created and link.href = url reads
\* the identifier url, which is not the parameter urls: without a global of
\* that name the read throws a ReferenceError and the async function
\* rejects before anything is scheduled; with one, its value is the href
\* of the single link that callCostlyApi appends.
prefetchResources(urls) ==
  /\ Idle
  /\ Len(jobs) < MaxJobs
  /\ IF globalUrl = "unbound"
       THEN /\ jobs' = Append(jobs, [NewJob("prefetchResources", FALSE)
                                       EXCEPT !.urls = urls,
                                              !.state = "rejected"])
            /\ UNCHANGED idleQueue
       ELSE /\ jobs' = Append(jobs, [NewJob("prefetchResources", FALSE)
                                       EXCEPT !.urls = urls])
            /\ idleQueue' = Append(idleQueue, Len(jobs) + 1)
  /\ lastOp' = [op |-> "prefetchResources", y |-> 0, n |-> Len(jobs) + 1]
  /\ UNCHANGED <<lastSweep, visibleCalls, visibilityState, hasScheduler, promise, kind, resolveCalls,
                 contRuns, pendingResolvers, listeners, rafQueue, timerQueue,
                 yieldQueue, microtasks, dispatch, nextHandle, iterVars,
                 debounceVars, pageVars, head, globalUrl>>

\* The host runs the oldest idle callback.  For removeDomNode fn detaches
\* the node; for prefetchResources fn appends the link and returns a
\* promise that waits for the load of the link.
IdleFire ==
  /\ Idle
  /\ idleQueue # <<>>
  /\ LET j == Head(idleQueue)
         r == jobs[j]
     IN /\ jobs' = [jobs EXCEPT ![j] =
                      IF r.api = "removeDomNode"
                        THEN [Invoked(r, j, "idle") EXCEPT !.attached = FALSE]
                      ELSE IF r.api = "prefetchResources"
                        THEN [r EXCEPT !.ran = @ + 1, !.ranIn = "idle",
                                       !.state = "loading"]
                      ELSE Invoked(r, j, "idle")]
        /\ head' = IF r.api = "prefetchResources"
                     THEN Append(head, [rel |-> "prefetch", href |-> globalUrl,
                                        by |-> j])
                     ELSE head
        /\ lastOp' = [op |-> "idle", y |-> 0, n |-> j]
  /\ idleQueue' = Tail(idleQueue)
  /\ UNCHANGED <<lastSweep, visibleCalls, visibilityState, hasScheduler, promise, kind, resolveCalls,
                 contRuns, pendingResolvers, listeners, rafQueue, timerQueue,
                 yieldQueue, microtasks, dispatch, nextHandle, iterVars,
                 debounceVars, pageVars, globalUrl>>

\* (mutant) the frame callback of afterNextPaint arms nothing.
FrameTimersNone(q, j) == q

\* window.setTimeout(resolve) in the frame callback of afterNextPaint.
FrameTimers(q, j) == Append(q, [kind |-> "timeout0", id |-> j, delay |-> 0])

\* The next animation frame callback runs (page visible): callCostlyUiApi's
\* calls fn, afterNextPaint's arms the zero-delay timer.
FrameFireJob ==
  /\ Idle
  /\ visibilityState = "visible"
  /\ rafQueue # <<>>
  /\ Head(rafQueue).kind \in {"ui", "paint"}
  /\ LET j == Head(rafQueue).id
     IN /\ IF Head(rafQueue).kind = "ui"
             THEN /\ jobs' = [jobs EXCEPT ![j] = Invoked(jobs[j], j, "frame")]
                  /\ UNCHANGED timerQueue
             ELSE /\ jobs' = [jobs EXCEPT ![j].frameFired = TRUE]
                  /\ timerQueue' = FrameTimers(timerQueue, j)
        /\ lastOp' = [op |-> "frameJob", y |-> 0, n |-> j]
  /\ rafQueue' = Tail(rafQueue)
  /\ UNCHANGED <<lastSweep, visibleCalls, visibilityState, hasScheduler, promise, kind, resolveCalls,
                 contRuns, pendingResolvers, listeners, yieldQueue, microtasks,
                 dispatch, nextHandle, iterVars, debounceVars, pageVars, idleQueue, head,
                 globalUrl>>

\* A timer of afterNextPaint fires and calls resolve: the first call
\* fulfils the awaited promise and queues the continuation, a later one
\* does nothing.  A timer fires before the older timers of longer delay
\* only.
TimerFireJob(k) ==
  /\ Idle
  /\ k \in 1..Len(timerQueue)
  /\ timerQueue[k].kind \in {"timeout0", "timeout100"}
  /\ \A i \in 1..(k - 1) : timerQueue[i].delay > timerQueue[k].delay
  /\ LET j == timerQueue[k].id
         first == jobs[j].inner = "pending"
     IN /\ jobs' = [jobs EXCEPT ![j].resolveCalls = @ + 1,
                                ![j].inner = "resolved",
                                ![j].winner = IF first THEN timerQueue[k].kind
                                                       ELSE @]
        /\ microtasks' = IF first
                           THEN Append(microtasks,
                                       [y |-> 0, hops |-> 0, job |-> j,
                                        by |-> timerQueue[k].kind])
                           ELSE microtasks
        /\ lastOp' = [op |-> timerQueue[k].kind, y |-> 0, n |-> j]
  /\ timerQueue' = [i \in 1..(Len(timerQueue) - 1) |->
                      IF i < k THEN timerQueue[i] ELSE timerQueue[i + 1]]
  /\ UNCHANGED <<lastSweep, visibleCalls, visibilityState, hasScheduler, promise, kind, resolveCalls,
                 contRuns, pendingResolvers, listeners, rafQueue, yieldQueue,
                 dispatch, nextHandle, iterVars, debounceVars, pageVars, idleQueue, head,
                 globalUrl>>

\* The continuation of afterNextPaint: return fn(), in the microtask
\* checkpoint of the task that called resolve.
PaintContinue ==
  /\ microtasks # <<>>
  /\ StackEmpty
  /\ Head(microtasks).y = 0
  /\ LET j == Head(microtasks).job
     IN /\ jobs' = [jobs EXCEPT ![j] =
                      InvokedAsync(jobs[j], j, Head(microtasks).by)]
        /\ lastOp' = [op |-> "paintContinue", y |-> 0, n |-> j]
  /\ microtasks' = Tail(microtasks)
  /\ UNCHANGED <<lastSweep, visibleCalls, visibilityState, hasScheduler, promise, kind, resolveCalls,
                 contRuns, pendingResolvers, listeners, rafQueue, timerQueue,
                 yieldQueue, dispatch, nextHandle, iterVars, debounceVars, pageVars,
                 idleQueue, head, globalUrl>>

\* ------------------------------------------------------ patchDatalayer
\* (mutant) the patched push also calls the original at once.
AtPushForwarding(log, a, n) ==
  Append(log, [args |-> a, by |-> n, receiver |-> "undefined"])

\* What the patched push does to the original push before it returns:
\* nothing, it only chains a callback on splitLongTask().
AtPush(log, a, n) == log

\* originalDataLayerPush(...args): the original method is called as a plain
\* function, without dl as its receiver, with the arguments of push n.
Forwarded(log, n) ==
  Append(log, [args |-> pushes[n].args, by |-> n, receiver |-> "undefined"])

\* dl.push(...args) after patchDatalayer(dl): splitLongTask().then(...)
push(a) ==
  /\ Idle
  /\ Spare
  /\ LET i == Min(FreeIds)
     IN /\ yieldUnlessUrgent(i, "push", microtasks)
        /\ pushes' = Append(pushes, [args |-> a, y |-> i])
        /\ dataLayer' = AtPush(dataLayer, a, Len(pushes) + 1)
        /\ lastOp' = [op |-> "push", y |-> i, n |-> Len(pushes) + 1]
  /\ UNCHANGED <<visibilityState, hasScheduler, contRuns, timerQueue, dispatch,
                 iterVars, debounceVars, deferVars, listenVars, imageVars, frameVars>>

\* The callback given to then(): forwards to the original push.
PushContinue ==
  /\ microtasks # <<>>
  /\ StackEmpty
  /\ Head(microtasks).hops = 0
  /\ Head(microtasks).y \in YieldIds
  /\ LET i == Head(microtasks).y
         n == CHOOSE m \in 1..Len(pushes) : pushes[m].y = i
     IN /\ kind[i] = "push"
        /\ contRuns' = [contRuns EXCEPT ![i] = @ + 1]
        /\ dataLayer' = Forwarded(dataLayer, n)
        /\ lastOp' = [op |-> "pushContinue", y |-> i, n |-> n]
  /\ microtasks' = Tail(microtasks)
  /\ UNCHANGED <<lastSweep, visibleCalls, visibilityState, hasScheduler, promise, kind, resolveCalls,
                 pendingResolvers, listeners, rafQueue, timerQueue, yieldQueue,
                 dispatch, nextHandle, pushes, iterVars, debounceVars,
                 deferVars, listenVars, imageVars, frameVars>>

\* ----------------------------------------------------- prioritizeImages
Imgs == 1..MaxImages

\* A document whose images carry neither attribute.
BlankDocument ==
  [e \in Imgs |-> [loading |-> "absent", fetchpriority |-> "absent"]]

\* The documents a call may find: per img, in document order, the values
\* of its loading and fetchpriority attributes.
Documents ==
  [Imgs -> [loading : {"absent", "lazy", "eager"},
            fetchpriority : {"absent", "high"}]]

\* The selectors in use: by id, by a class no element has, by an attribute
\* the function writes, by the attribute of the previous sibling, and one
\* that is not a valid selector.
Selectors == {"#hero", ".none", "[loading=lazy]", "[fetchpriority=high] + img",
              "img["}

Valid(selector) == selector # "img["

\* document.querySelectorAll(selector) on a valid selector: a static list
\* of the elements matching at the time of the call.
querySelectorAll(selector, doc) ==
  IF selector = "#hero" THEN {1}
  ELSE IF selector = "[loading=lazy]"
    THEN {e \in Imgs : doc[e].loading = "lazy"}
  ELSE IF selector = "[fetchpriority=high] + img"
    THEN {e \in Imgs : e > 1 /\ doc[e - 1].fetchpriority = "high"}
  ELSE {}

\* (mutant) only the loading attribute is set.
ForEachLoadingOnly(doc, matched) ==
  [e \in Imgs |-> IF e \in matched THEN [doc[e] EXCEPT !.loading = "eager"]
                                   ELSE doc[e]]

\* The forEach body on every element of the list: both attributes are set;
\* img.loading reflects the attribute just set, img.fetchpriority is a
\* plain property that no attribute reflects.
ForEach(doc, matched) ==
  [e \in Imgs |-> IF e \in matched
                    THEN [loading |-> "eager", fetchpriority |-> "high"]
                    ELSE doc[e]]

\* prioritizeImages(selector); querySelectorAll throws a SyntaxError on an
\* invalid selector, before anything is changed.
prioritizeImages(selector) ==
  /\ Idle
  /\ Len(imgLog) < MaxPrioritize
  /\ images' = IF Valid(selector)
                 THEN ForEach(images, querySelectorAll(selector, images))
                 ELSE images
  /\ imgLog' = Append(imgLog, [selector |-> selector, before |-> images,
                               after |-> images', threw |-> ~Valid(selector)])
  /\ lastOp' = [op |-> "prioritizeImages", y |-> 0, n |-> Len(imgLog) + 1]
  /\ UNCHANGED <<lastSweep, visibleCalls, visibilityState, hasScheduler, promise, kind, resolveCalls,
                 contRuns, pendingResolvers, listeners, rafQueue, timerQueue,
                 yieldQueue, microtasks, dispatch, nextHandle, iterVars,
                 debounceVars, deferVars, patchVars, listenVars, frameVars>>

\* ------------------------------------- window.requestAnimationFrame ||=
Max(a, b) == IF a >= b THEN a ELSE b

\* (mutant) the delay is not clamped at zero.
nextUnclamped(t, l) == 16 - (t - l)
\* const next = Math.max(0, 16 - (now - last)), with now = t and last = l.
next(t, l) == Max(0, 16 - (t - l))

\* The polyfill is called while the clock reads t: it arms a timer whose
\* callback receives now + next, and remembers that time in `last`.
requestAnimationFrame(t) ==
  /\ Idle
  /\ Len(frameTimers) < MaxFrames
  /\ date' = t
  /\ frameTimers' = Append(frameTimers,
                           [delay |-> next(t, last), arg |-> t + next(t, last)])
  /\ last' = t + next(t, last)
  /\ lastOp' = [op |-> "requestAnimationFrame", y |-> 0,
                n |-> Len(frameTimers) + 1]
  /\ UNCHANGED <<lastSweep, visibleCalls, visibilityState, hasScheduler, promise, kind, resolveCalls,
                 contRuns, pendingResolvers, listeners, rafQueue, timerQueue,
                 yieldQueue, microtasks, dispatch, nextHandle, iterVars,
                 debounceVars, deferVars, patchVars, listenVars, imageVars>>

\* ------------------------------------------------- patchEventListeners
NoCapture == [reg |-> 0, ev |-> 0, currentTarget |-> "none", target |-> "none"]

NoDispatch == [ev |-> 0, queue |-> <<>>]

\* The objects whose addEventListener is replaced by the Proxy.
Targets == {"document", "window"}

\* The event names scripts register for.
EventNames == {"DOMContentLoaded", "scroll"}

\* src, the third line of new Error().stack in the apply handler: missing
\* or empty ("none"), a frame of the page's own host ("own"), one of the
\* page's own host that matches pattern ("ownMatching"), or a frame of
\* another host ("third").
Sources == {"none", "own", "ownMatching", "third"}

\* String.prototype.toLowerCase on the names in use.
toLowerCase(n) == IF n = "DOMContentLoaded" THEN "domcontentloaded" ELSE n

\* types = ['load', 'DOMContentLoaded', 'click'], the default.
types == {"load", "DOMContentLoaded", "click"}

lowercaseTypes == {toLowerCase(t) : t \in types}

\* The condition under which the apply handler replaces the listener.
Wraps(eventName, src) ==
  /\ src # "none"
  /\ toLowerCase(eventName) \in lowercaseTypes
  /\ \/ src = "third"
     \/ (patched = "pattern" /\ src = "ownMatching")

\* patchEventListeners(types, pattern), with or without a pattern.
patchEventListeners(pattern) ==
  /\ Idle
  /\ patched = "no"
  /\ patched' = IF pattern THEN "pattern" ELSE "noPattern"
  /\ lastOp' = [op |-> "patchEventListeners", y |-> 0, n |-> 0]
  /\ UNCHANGED <<lastSweep, visibleCalls, visibilityState, hasScheduler, promise, kind, resolveCalls,
                 contRuns, pendingResolvers, listeners, rafQueue, timerQueue,
                 yieldQueue, microtasks, dispatch, nextHandle, iterVars,
                 debounceVars, deferVars, patchVars, imageVars, frameVars, registry,
                 events, domDispatch, capture, runs>>

\* target.addEventListener(eventName, listener) through the Proxy: the
\* native method receives the listener or its wrapper.
addEventListener(target, eventName, src) ==
  /\ Idle
  /\ patched # "no"
  /\ Len(registry) < MaxRegs
  /\ registry' = Append(registry, [target |-> target, eventName |-> eventName,
                                   src |-> src,
                                   wrapped |-> Wraps(eventName, src)])
  /\ lastOp' = [op |-> "addEventListener", y |-> 0, n |-> Len(registry) + 1]
  /\ UNCHANGED <<lastSweep, visibleCalls, visibilityState, hasScheduler, promise, kind, resolveCalls,
                 contRuns, pendingResolvers, listeners, rafQueue, timerQueue,
                 yieldQueue, microtasks, dispatch, nextHandle, iterVars,
                 debounceVars, deferVars, patchVars, imageVars, frameVars, patched,
                 events, domDispatch, capture, runs>>

\* The registrations an event of this type reaches, in invocation order:
\* the event targets the document and bubbles to the window.
PathOf(type) ==
  SelectSeq([n \in 1..Len(registry) |-> n],
            LAMBDA n : registry[n].eventName = type
                       /\ registry[n].target = "document")
  \o SelectSeq([n \in 1..Len(registry) |-> n],
               LAMBDA n : registry[n].eventName = type
                          /\ registry[n].target = "window")

\* The host dispatches an event.  The event object has no own property
\* currentTarget or target: both are read through Event.prototype.
DomEvent(type) ==
  /\ Idle
  /\ Len(events) < MaxEvents
  /\ Len(SelectSeq(PathOf(type), LAMBDA n : registry[n].wrapped))
       <= Cardinality(FreeIds)
  /\ events' = Append(events, [type |-> type, currentTarget |-> "unset",
                               target |-> "unset"])
  /\ domDispatch' = [ev |-> Len(events) + 1, queue |-> PathOf(type)]
  /\ lastOp' = [op |-> "domEvent", y |-> 0, n |-> Len(events) + 1]
  /\ UNCHANGED <<lastSweep, visibleCalls, visibilityState, hasScheduler, promise, kind, resolveCalls,
                 contRuns, pendingResolvers, listeners, rafQueue, timerQueue,
                 yieldQueue, microtasks, dispatch, nextHandle, iterVars,
                 debounceVars, deferVars, patchVars, imageVars, frameVars, patched,
                 registry, capture, runs>>

\* event.currentTarget as a listener on `target` reads it: the own data
\* property once one is defined, else the getter of the prototype.
CurrentTargetOf(e, target) ==
  IF events[e].currentTarget # "unset" THEN events[e].currentTarget
                                       ELSE target

\* The next listener of the event being dispatched is invoked.  A wrapper
\* captures currentTarget and target and chains on splitLongTask(); an
\* original listener runs at once.
Listener ==
  /\ microtasks = <<>>
  /\ StackEmpty
  /\ domDispatch.queue # <<>>
  /\ LET r == Head(domDispatch.queue)
         e == domDispatch.ev
         ct == CurrentTargetOf(e, registry[r].target)
     IN IF registry[r].wrapped
          THEN LET i == Min(FreeIds)
               IN /\ yieldUnlessUrgent(i, "listener", microtasks)
                  /\ capture' = [capture EXCEPT ![i] =
                                   [reg |-> r, ev |-> e, currentTarget |-> ct,
                                    target |-> "document"]]
                  /\ lastOp' = [op |-> "wrapper", y |-> i, n |-> r]
                  /\ UNCHANGED runs
          ELSE /\ runs' = Append(runs, [reg |-> r, ev |-> e,
                                        currentTarget |-> ct, by |-> 0])
               /\ lastOp' = [op |-> "listener", y |-> 0, n |-> r]
               /\ UNCHANGED <<promise, kind, resolveCalls, pendingResolvers,
                              listeners, rafQueue, nextHandle, yieldQueue,
                              microtasks, capture, lastSweep, visibleCalls>>
  /\ domDispatch' = [domDispatch EXCEPT !.queue = Tail(@)]
  /\ UNCHANGED <<visibilityState, hasScheduler, contRuns, timerQueue, dispatch,
                 iterVars, debounceVars, deferVars, patchVars, imageVars, frameVars,
                 patched, registry, events>>

\* Object.defineProperty(event, name, { writable: false, value }) succeeds
\* when the event has no such own property, or one of the same value; the
\* property it creates is not configurable, so another value is refused
\* with a TypeError.
Definable(e, c) ==
  /\ events[e].currentTarget \in {"unset", c.currentTarget}
  /\ events[e].target \in {"unset", c.target}

\* The callback a wrapper gave to then(): it pins currentTarget and target
\* on the event and calls the original listener; a TypeError of
\* defineProperty ends it before the listener is called.
ListenerContinue ==
  /\ microtasks # <<>>
  /\ StackEmpty
  /\ Head(microtasks).hops = 0
  /\ Head(microtasks).y \in YieldIds
  /\ LET i == Head(microtasks).y
         c == capture[i]
     IN /\ kind[i] = "listener"
        /\ contRuns' = [contRuns EXCEPT ![i] = @ + 1]
        /\ IF Definable(c.ev, c)
             THEN /\ events' = [events EXCEPT
                                  ![c.ev].currentTarget = c.currentTarget,
                                  ![c.ev].target = c.target]
                  /\ runs' = Append(runs, [reg |-> c.reg, ev |-> c.ev,
                                           currentTarget |-> c.currentTarget,
                                           by |-> i])
             ELSE UNCHANGED <<events, runs>>
        /\ lastOp' = [op |-> "listenerContinue", y |-> i, n |-> c.reg]
  /\ microtasks' = Tail(microtasks)
  /\ UNCHANGED <<lastSweep, visibleCalls, visibilityState, hasScheduler, promise, kind, resolveCalls,
                 pendingResolvers, listeners, rafQueue, timerQueue, yieldQueue,
                 dispatch, nextHandle, iterVars, debounceVars, deferVars,
                 patchVars, imageVars, frameVars, patched, registry, domDispatch,
                 capture>>

\* ----------------------------------------------------------- specification
InitPage(doc) ==
  /\ visibilityState \in {"visible", "hidden"}
  /\ hasScheduler \in BOOLEAN
  /\ promise = [i \in YieldIds |-> "none"]
  /\ kind = [i \in YieldIds |-> "none"]
  /\ resolveCalls = [i \in YieldIds |-> 0]
  /\ contRuns = [i \in YieldIds |-> 0]
  /\ pendingResolvers = <<>>
  /\ listeners = [t \in EventTypes |-> <<>>]
  /\ rafQueue = <<>>
  /\ timerQueue = <<>>
  /\ yieldQueue = {}
  /\ microtasks = <<>>
  /\ dispatch = [type |-> "visibilitychange", queue |-> <<>>, ran |-> 0]
  /\ nextHandle = 1
  /\ lastOp = NoOp
  /\ lastSweep = {}
  /\ visibleCalls = 0
  /\ clock = 0
  /\ iteration = [k \in IterIds |-> NewIteration]
  /\ rafId = [w \in WrapperIds |-> 0]
  /\ calls = <<>>
  /\ jobs = <<>>
  /\ idleQueue = <<>>
  /\ head = <<>>
  /\ globalUrl = "unbound"
  /\ pushes = <<>>
  /\ dataLayer = <<>>
  /\ patched = "no"
  /\ registry = <<>>
  /\ events = <<>>
  /\ domDispatch = NoDispatch
  /\ capture = [i \in YieldIds |-> NoCapture]
  /\ runs = <<>>
  /\ images = doc
  /\ imgLog = <<>>
  /\ last = 0
  /\ date = 0
  /\ frameTimers = <<>>

InitYield == InitPage(BlankDocument)

NextYield ==
  \/ \E k \in {"split", "again"} : CallYield(k)
  \/ FrameFireYield
  \/ TimerFireYield
  \/ \E i \in YieldIds : SchedulerYieldFire(i)
  \/ \E t \in EventTypes : LifecycleEvent(t)
  \/ cleanup
  \/ Forward
  \/ Continue
  \/ ContinueAndYield

SpecYield == InitYield /\ [][NextYield]_vars

NextIter ==
  \/ \E its \in ItemSeqs, lim \in Limits, b \in 0..MaxItems :
       splitLongIteration(1, its, lim, b)
  \/ \E k \in IterIds : IterDone(k) \/ IterYield(k) \/ IterCall(k)
  \/ IterResume
  \/ Tick
  \/ FrameFireYield
  \/ TimerFireYield
  \/ \E i \in YieldIds : SchedulerYieldFire(i)
  \/ \E t \in EventTypes : LifecycleEvent(t)
  \/ cleanup
  \/ Forward

SpecIter == InitYield /\ [][NextIter]_vars

\* Two splitLongIteration() calls under way at once, over short arrays
\* and with an fn that does not throw.
NextConcurrent ==
  \/ \E k \in IterIds, its \in ShortItemSeqs, lim \in ShortLimits :
       splitLongIteration(k, its, lim, 0)
  \/ \E k \in IterIds : IterDone(k) \/ IterYield(k) \/ IterCall(k)
  \/ IterResume
  \/ Tick
  \/ FrameFireYield
  \/ TimerFireYield
  \/ \E i \in YieldIds : SchedulerYieldFire(i)
  \/ \E t \in EventTypes : LifecycleEvent(t)
  \/ cleanup
  \/ Forward

SpecConcurrent == InitYield /\ [][NextConcurrent]_vars

NextDebounce ==
  \/ \E w \in WrapperIds, a \in ArgValues : wrapped(w, a)
  \/ FrameFireDebounce
  \/ \E t \in EventTypes : LifecycleEvent(t)

SpecDebounce == InitYield /\ [][NextDebounce]_vars

NextDeferred ==
  \/ \E throws \in BOOLEAN :
       \/ callCostlyApi(throws)
       \/ callCostlyUiApi(throws)
       \/ performAsyncUiUpdate(throws)
  \/ removeDomNode
  \/ DefineGlobalUrl
  \/ \E urls \in UrlSeqs : prefetchResources(urls)
  \/ IdleFire
  \/ FrameFireJob
  \/ \E k \in 1..(2 * MaxJobs) : TimerFireJob(k)
  \/ PaintContinue
  \/ \E t \in EventTypes : LifecycleEvent(t)

SpecDeferred == InitYield /\ [][NextDeferred]_vars

NextDatalayer ==
  \/ \E a \in ArgValues : push(a)
  \/ FrameFireYield
  \/ TimerFireYield
  \/ \E i \in YieldIds : SchedulerYieldFire(i)
  \/ \E t \in EventTypes : LifecycleEvent(t)
  \/ cleanup
  \/ Forward
  \/ PushContinue

SpecDatalayer == InitYield /\ [][NextDatalayer]_vars

NextListeners ==
  \/ \E pattern \in BOOLEAN : patchEventListeners(pattern)
  \/ \E target \in Targets, eventName \in EventNames, src \in Sources :
       addEventListener(target, eventName, src)
  \/ \E type \in EventNames : DomEvent(type)
  \/ Listener
  \/ ListenerContinue
  \/ Forward
  \/ FrameFireYield
  \/ TimerFireYield
  \/ \E i \in YieldIds : SchedulerYieldFire(i)
  \/ \E t \in EventTypes : LifecycleEvent(t)
  \/ cleanup

SpecListeners == InitYield /\ [][NextListeners]_vars

InitImages == \E doc \in Documents : InitPage(doc)

NextImages == \E selector \in Selectors : prioritizeImages(selector)

SpecImages == InitImages /\ [][NextImages]_vars

\* The polyfill alone, called at clock times that never decrease.
NextFrame == \E t \in date..MaxTime : requestAnimationFrame(t)

SpecFrame == InitYield /\ [][NextFrame]_vars

\* performAsyncUiUpdate alone, for what its calls lead to.
NextPaint ==
  \/ \E throws \in BOOLEAN : performAsyncUiUpdate(throws)
  \/ FrameFireJob
  \/ \E k \in 1..(2 * MaxJobs) : TimerFireJob(k)
  \/ PaintContinue
  \/ \E t \in EventTypes : LifecycleEvent(t)

\* Timers fire and microtasks run; frames are produced while the page is
\* visible.
FairPaint ==
  /\ WF_vars(\E k \in 1..(2 * MaxJobs) : TimerFireJob(k))
  /\ WF_vars(FrameFireJob)
  /\ WF_vars(PaintContinue)

FairSpecPaint == InitYield /\ [][NextPaint]_vars /\ FairPaint

\* What the host guarantees: requested frames are produced while the page
\* is visible, timers and scheduler.yield() promises fire, an event being
\* dispatched reaches all its listeners, and microtasks run.  Page code and
\* lifecycle events are under no obligation.
FairYield ==
  /\ WF_vars(FrameFireYield)
  /\ WF_vars(TimerFireYield)
  /\ \A i \in YieldIds : WF_vars(SchedulerYieldFire(i))
  /\ WF_vars(cleanup)
  /\ WF_vars(Forward)
  /\ WF_vars(Continue)
  /\ WF_vars(ContinueAndYield)

FairSpecYield == InitYield /\ [][NextYield]_vars /\ FairYield

FairDatalayer == FairYield /\ WF_vars(PushContinue)

FairSpecDatalayer == InitYield /\ [][NextDatalayer]_vars /\ FairDatalayer

Pending == {i \in YieldIds : promise[i] = "pending"}

\* ------------------------------------------------------------------ claims

\* C1: every promise returned by yieldUnlessUrgent() / splitLongTask()
\* eventually resolves: at once when the page is hidden at call time, and
\* otherwise as soon as its host callback or a lifecycle listener runs, for
\* any number of pending yields and any interleaving.
C1_EveryYieldResolves ==
  /\ \A i \in YieldIds : (promise[i] = "pending") ~> (promise[i] = "resolved")
  /\ [](lastOp.op \in {"yieldHidden", "reyieldHidden", "timer", "native"}
          => promise[lastOp.y] = "resolved")
  /\ [](lastOp.op = "cleanup" => Pending = {})

\* Two yields were pending together and a lifecycle event resumed them.
C1_Witness ==
  /\ lastOp.op = "cleanup"
  /\ lastOp.n >= 2
  /\ Pending = {}

\* C2: the continuation awaiting a yield runs at most once, however many
\* times its resolve() is invoked (host callback and forced sweep, in
\* either order); a second resumption queues nothing.
C2_ResumedAtMostOnce ==
  \A i \in YieldIds :
    contRuns[i] + Len(SelectSeq(microtasks, LAMBDA m : m.y = i)) <= 1

\* A sweep resumed the yield first, then its own timer fired as well.
C2_Witness ==
  /\ lastOp.op = "timer"
  /\ resolveCalls[lastOp.y] = 2
  /\ contRuns[lastOp.y] = 1

\* C3: when a lifecycle event fires while N >= 1 yields are pending, the
\* first listener invoked resolves all N and leaves pendingResolvers empty.
C3_ForcedResume ==
  /\ (lastOp.op \in EventTypes /\ Pending # {})
       => /\ dispatch.queue # <<>>
          /\ Head(dispatch.queue) \in Range(listeners[dispatch.type])
  /\ (lastOp.op = "cleanup" /\ dispatch.ran = 1)
       => /\ Pending = {}
          /\ pendingResolvers = <<>>

\* The first listener of an event found two yields pending.
C3_Witness ==
  /\ lastOp.op = "cleanup"
  /\ dispatch.ran = 1
  /\ lastOp.n >= 2
  /\ pendingResolvers = <<>>

C5_RegistryHoldsOnlyUnresolved ==
  \A i \in Range(pendingResolvers) : promise[i] = "pending"

IsPrefix(a, b) == Len(a) <= Len(b) /\ a = SubSeq(b, 1, Len(a))

\* C6: splitLongIteration invokes fn on every item exactly once and in the
\* original order, whatever the limit and the interleaving, and its promise
\* resolves only after the last item was processed.
C6_EveryItemOnceInOrder ==
  \A k \in IterIds :
    /\ IsPrefix(iteration[k].fnLog, iteration[k].items)
    /\ iteration[k].pc = "done" => iteration[k].fnLog = iteration[k].items

\* An iteration over MaxItems descending items finished after being
\* suspended at least once with a positive finite limit.
C6_Witness ==
  \E k \in IterIds :
    /\ iteration[k].pc = "done"
    /\ iteration[k].items = [j \in 1..MaxItems |-> MaxItems + 1 - j]
    /\ iteration[k].limit = [fin |-> TRUE, ms |-> 1]
    /\ iteration[k].yieldedAt # <<>>

\* C7: with limit = 0 one yield is awaited before every item, and with
\* limit = Infinity no yield is ever awaited.
C7_LimitZeroAndInfinity ==
  \A k \in IterIds :
    LET r == iteration[k]
    IN /\ r.limit = [fin |-> TRUE, ms |-> 0]
            => /\ Len(r.yieldedAt) = Len(r.fnLog) + (IF r.pc = "await" THEN 1 ELSE 0)
               /\ \A j \in 1..Len(r.yieldedAt) : r.yieldedAt[j] = j
       /\ r.limit = Infinity => r.yieldedAt = <<>>

\* A limit-0 iteration over MaxItems items finished, one yield per item.
C7_Witness ==
  \E k \in IterIds :
    /\ iteration[k].pc = "done"
    /\ iteration[k].limit = [fin |-> TRUE, ms |-> 0]
    /\ Len(iteration[k].items) = MaxItems
    /\ iteration[k].yieldedAt = [j \in 1..MaxItems |-> j]

\* C8: when fn throws on an item the promise of splitLongIteration rejects,
\* the items before it were each processed once, and fn is never invoked
\* on a later item.
C8_ThrowAborts ==
  /\ [](\A k \in IterIds :
          LET r == iteration[k]
          IN /\ r.pc = "rejected"
                  => /\ r.fnLog = SubSeq(r.items, 1, r.idx)
                     /\ r.items[r.idx] = r.bad
                     /\ \A j \in 1..(r.idx - 1) : r.items[j] # r.bad
             /\ r.bad \in Range(r.items) => r.pc # "done")
  /\ [][\A k \in IterIds :
          iteration[k].pc = "rejected" => iteration'[k] = iteration[k]]_vars

\* fn threw on the second of three items, after a yield, and the page went
\* on to another task.
C8_Witness ==
  \E k \in IterIds :
    /\ iteration[k].pc = "rejected"
    /\ Len(iteration[k].items) = 3
    /\ Len(iteration[k].fnLog) = 2
    /\ iteration[k].yieldedAt # <<>>
    /\ lastOp.op \in EventTypes

Queued(c) == Len(SelectSeq(rafQueue, LAMBDA e : e.kind = "debounce" /\ e.id = c))

\* C9: of several calls to a debounced wrapper made before a frame, only
\* the most recent one has its arguments passed to fn, exactly once, at
\* the next frame.
C9_DebounceCoalesces ==
  \A c \in 1..Len(calls) :
    /\ calls[c].ran <= 1
    /\ calls[c].superseded => calls[c].ran = 0
    /\ ~calls[c].superseded => calls[c].ran + Queued(c) = 1

\* Three calls to one wrapper, the last with other arguments, then a frame.
C9_Witness ==
  /\ Len(calls) = 3
  /\ \A c \in 1..3 : calls[c].w = 1
  /\ calls[1].args = "a" /\ calls[2].args = "a" /\ calls[3].args = "b"
  /\ calls[1].superseded /\ calls[2].superseded
  /\ calls[3].ran = 1
  /\ rafQueue = <<>>

\* C10: a call to a debounced wrapper cancels the pending frame request of
\* the previous call to that wrapper; the promise of a superseded call
\* never resolves, and the promise of the call whose request fires resolves
\* with fn's result for that call's own arguments.
C10_SupersededNeverResolves ==
  \A c \in 1..Len(calls) :
    /\ calls[c].superseded => calls[c].state = "pending" /\ Queued(c) = 0
    /\ calls[c].state = "resolved"
         => /\ calls[c].ran = 1
            /\ calls[c].value = Result(calls[c].w, calls[c].args)
    /\ calls[c].ran >= 1 => calls[c].state = "resolved"

\* A superseded call stays pending while the call that replaced it and a
\* call to the other wrapper have both resolved with their own results.
C10_Witness ==
  /\ Len(calls) = 3
  /\ calls[1].w = 1 /\ calls[2].w = 2 /\ calls[3].w = 1
  /\ calls[1].args = "a" /\ calls[2].args = "a" /\ calls[3].args = "b"
  /\ calls[1].state = "pending" /\ calls[1].superseded
  /\ calls[2].state = "resolved" /\ calls[2].value = Result(2, "a")
  /\ calls[3].state = "resolved" /\ calls[3].value = Result(1, "b")

\* ------------------------------------- claims on the deferred wrappers
\* C11: when fn throws inside callCostlyApi, callCostlyUiApi or
\* performAsyncUiUpdate, the promise the wrapper returned rejects; it is
\* never left pending or resolved once fn has thrown.
C11_ThrowRejects ==
  \A j \in 1..Len(jobs) :
    (/\ jobs[j].api \in {"callCostlyApi", "callCostlyUiApi",
                         "performAsyncUiUpdate"}
     /\ jobs[j].throws
     /\ jobs[j].ran >= 1)
      => jobs[j].state = "rejected"

\* C12: performAsyncUiUpdate(fn) invokes fn exactly once per call: fn is
\* eventually invoked even when no animation frame fires, and it is never
\* invoked a second time, whichever of the two timers fires first.
C12_PaintRunsExactlyOnce ==
  /\ [](\A j \in 1..Len(jobs) :
          jobs[j].api = "performAsyncUiUpdate" => jobs[j].ran <= 1)
  /\ \A j \in 1..MaxJobs :
       (j <= Len(jobs) /\ jobs[j].api = "performAsyncUiUpdate")
         ~> (j <= Len(jobs) /\ jobs[j].ran = 1)

\* The first call had both of its timers fire, the second was made on a
\* page whose frame never came; fn ran once in each.
C12_Witness ==
  /\ Len(jobs) = 2
  /\ jobs[1].api = "performAsyncUiUpdate" /\ jobs[1].resolveCalls = 2
  /\ jobs[1].frameFired /\ jobs[1].ran = 1
  /\ jobs[2].api = "performAsyncUiUpdate" /\ ~jobs[2].frameFired
  /\ jobs[2].winner = "timeout100" /\ jobs[2].ran = 1

\* C13 (as stated): on either branch of the race fn is never invoked in
\* the task of the frame callback nor in the task of the 100 ms timer
\* callback.
C13_NeverInWinnersTask ==
  \A j \in 1..Len(jobs) :
    (jobs[j].api = "performAsyncUiUpdate" /\ jobs[j].ran >= 1)
      => jobs[j].ranIn \notin {"frame", "timeout100"}

\* C13 (amended): fn runs in the task of the timer callback that first
\* called resolve.  After a frame that is the zero-delay timer the frame
\* callback armed, a task later than the frame callback's; when the 100 ms
\* timer is first, fn runs in the microtask checkpoint of that timer's own
\* task.  fn never runs in the frame callback's task nor before a timer
\* has fired.
C13_ExtraTickOnlyAfterFrame ==
  \A j \in 1..Len(jobs) :
    jobs[j].api = "performAsyncUiUpdate" =>
      /\ jobs[j].ranIn \in {"none", "timeout0", "timeout100"}
      /\ jobs[j].winner = "none" => jobs[j].ran = 0
      /\ jobs[j].ran >= 1 => jobs[j].ranIn = jobs[j].winner
      /\ jobs[j].winner = "timeout0" => jobs[j].frameFired
      /\ (jobs[j].frameFired /\ jobs[j].inner = "pending") =>
           \E k \in 1..Len(timerQueue) :
             timerQueue[k] = [kind |-> "timeout0", id |-> j, delay |-> 0]

\* The first call ran fn in the zero-delay timer after its frame, the
\* second in the task of its 100 ms timer.
C13_Witness ==
  /\ Len(jobs) = 2
  /\ jobs[1].api = "performAsyncUiUpdate" /\ jobs[1].ran = 1
  /\ jobs[1].frameFired /\ jobs[1].ranIn = "timeout0"
  /\ jobs[2].api = "performAsyncUiUpdate" /\ jobs[2].ran = 1
  /\ jobs[2].ranIn = "timeout100"

\* C14: callCostlyApi(fn) invokes fn exactly once and only in the idle
\* callback it requested, callCostlyUiApi(fn) exactly once and only in the
\* frame callback it requested; fn is not invoked inside the call, and the
\* promise resolves with fn's result and not before fn has run.
C14_DeferredOnce ==
  /\ \A j \in 1..Len(jobs) :
       jobs[j].api \in {"callCostlyApi", "callCostlyUiApi"} =>
         LET where == IF jobs[j].api = "callCostlyApi" THEN "idle" ELSE "frame"
             queued == IF jobs[j].api = "callCostlyApi"
                         THEN \E i \in 1..Len(idleQueue) : idleQueue[i] = j
                         ELSE \E i \in 1..Len(rafQueue) :
                                rafQueue[i].kind = "ui" /\ rafQueue[i].id = j
         IN /\ jobs[j].ran = (IF queued THEN 0 ELSE 1)
            /\ jobs[j].ran = 1 => jobs[j].ranIn = where
            /\ jobs[j].state = "resolved" =>
                 jobs[j].ran = 1 /\ jobs[j].value = FnResult(j)
            /\ (jobs[j].ran = 1 /\ ~jobs[j].throws) =>
                 jobs[j].state = "resolved"
  /\ lastOp.op \in {"callCostlyApi", "callCostlyUiApi"} =>
       jobs[lastOp.n].ran = 0 /\ jobs[lastOp.n].state = "pending"

\* An idle callback and a frame callback have each run their fn and
\* resolved their promise with its result.
C14_Witness ==
  /\ Len(jobs) = 2
  /\ jobs[1].api = "callCostlyApi" /\ jobs[1].state = "resolved"
  /\ jobs[1].value = FnResult(1) /\ jobs[1].ranIn = "idle"
  /\ jobs[2].api = "callCostlyUiApi" /\ jobs[2].state = "resolved"
  /\ jobs[2].value = FnResult(2) /\ jobs[2].ranIn = "frame"

\* The prefetch links that call j has put into the document head.
LinksOf(j) == SelectSeq(head, LAMBDA l : l.rel = "prefetch" /\ l.by = j)

\* C17: once all idle callbacks have fired, prefetchResources(urls) has
\* inserted one prefetch link per URL of urls, with the given URLs as
\* hrefs.
C17_OneLinkPerUrl ==
  \A j \in 1..Len(jobs) :
    (jobs[j].api = "prefetchResources" /\ idleQueue = <<>>) =>
      /\ Len(LinksOf(j)) = Len(jobs[j].urls)
      /\ \A i \in 1..Len(LinksOf(j)) : LinksOf(j)[i].href = jobs[j].urls[i]

\* C19: removeDomNode(el) hides el before the call returns, detaches it
\* only in the idle callback, and its promise resolves only after the
\* detach; a detached el has been hidden first.
C19_HideThenDetach ==
  /\ \A j \in 1..Len(jobs) :
       jobs[j].api = "removeDomNode" =>
         /\ jobs[j].display = "none"
         /\ (\E i \in 1..Len(idleQueue) : idleQueue[i] = j) =>
              jobs[j].attached /\ jobs[j].state = "pending"
         /\ ~jobs[j].attached => jobs[j].ran = 1 /\ jobs[j].ranIn = "idle"
         /\ jobs[j].state = "resolved" => ~jobs[j].attached
  /\ lastOp.op = "removeDomNode" =>
       jobs[lastOp.n].display = "none" /\ jobs[lastOp.n].attached

\* The idle callback of a removeDomNode call has detached the hidden node
\* and the promise has resolved, while a later call has only hidden its
\* node.
C19_Witness ==
  /\ Len(jobs) = 2
  /\ jobs[1].api = "removeDomNode" /\ ~jobs[1].attached
  /\ jobs[1].display = "none" /\ jobs[1].state = "resolved"
  /\ jobs[2].api = "removeDomNode" /\ jobs[2].attached
  /\ jobs[2].display = "none" /\ jobs[2].state = "pending"

\* --------------------------------------------- claims on the patches
\* The calls of the original push that push n has caused.
ForwardsOf(n) == SelectSeq(dataLayer, LAMBDA c : c.by = n)

\* C15: after patchDatalayer(dl) every dl.push(args) leads to exactly one
\* call of the original push with the same arguments; the call is made
\* only after the yield this push started has resolved, never inside
\* dl.push itself, also when the page is hidden.
C15_PushForwardedOnceAfterYield ==
  /\ [](\A n \in 1..Len(pushes) :
          /\ Len(ForwardsOf(n)) <= 1
          /\ Len(ForwardsOf(n)) = contRuns[pushes[n].y]
          /\ \A k \in 1..Len(ForwardsOf(n)) :
               /\ ForwardsOf(n)[k].args = pushes[n].args
               /\ promise[pushes[n].y] = "resolved")
  /\ [](lastOp.op = "push" => ForwardsOf(lastOp.n) = <<>>)
  /\ []<>(\A n \in 1..Len(pushes) : Len(ForwardsOf(n)) = 1)

\* Two pushes have each reached the original push with their own
\* arguments; a third, made on the hidden page, has returned with its
\* yield resolved and its callback still to run.
C15_Witness ==
  /\ Len(pushes) = 3
  /\ Len(dataLayer) = 2
  /\ dataLayer[1].args = "a" /\ dataLayer[1].by = 1
  /\ dataLayer[2].args = "b" /\ dataLayer[2].by = 2
  /\ visibilityState = "hidden"
  /\ lastOp.op = "push" /\ lastOp.n = 3
  /\ promise[pushes[3].y] = "resolved"

\* The invocations of original listeners that wrapper invocation i caused.
RunsBy(i) == SelectSeq(runs, LAMBDA u : u.by = i)

\* C16: a registration through the patched addEventListener whose call
\* site can be read is wrapped exactly when its event name is in types,
\* compared case-insensitively, and its call site is not of the page's
\* own host or matches pattern; a wrapper whose callback has run, which
\* it does only after its yield has resolved, has called the original
\* listener exactly once, with currentTarget as it was at dispatch time;
\* any other registration is passed through and its listener runs inside
\* the dispatch.
C16_WrappedListenerRunsOnce ==
  /\ \A r \in 1..Len(registry) :
       registry[r].src # "none" =>
         (registry[r].wrapped <=>
            /\ toLowerCase(registry[r].eventName) \in lowercaseTypes
            /\ \/ registry[r].src = "third"
               \/ (patched = "pattern" /\ registry[r].src = "ownMatching"))
  /\ \A i \in YieldIds :
       kind[i] = "listener" =>
         /\ Len(RunsBy(i)) = contRuns[i]
         /\ contRuns[i] <= 1
         /\ contRuns[i] = 1 => promise[i] = "resolved"
         /\ \A k \in 1..Len(RunsBy(i)) :
              /\ RunsBy(i)[k].reg = capture[i].reg
              /\ RunsBy(i)[k].currentTarget = registry[capture[i].reg].target
  /\ \A k \in 1..Len(runs) :
       runs[k].by = 0 => ~registry[runs[k].reg].wrapped

\* ------------------------------------------- claims on prioritizeImages
\* Two consecutive calls with the same valid selector.
Repeated(k) ==
  /\ k + 1 <= Len(imgLog)
  /\ imgLog[k + 1].selector = imgLog[k].selector
  /\ Valid(imgLog[k].selector)

\* C18 (as stated): for every document and selector, calling
\* prioritizeImages(selector) twice leaves the document as calling it once
\* does.
C18_TwiceSameAsOnce ==
  \A k \in 1..Len(imgLog) :
    Repeated(k) => imgLog[k + 1].after = imgLog[k].after

\* C18 (amended): a call sets loading = eager and fetchpriority = high on
\* the elements its selector matches at the time of the call and changes no
\* other element; a valid selector that matches nothing raises no error
\* and changes nothing.  A second call with the same selector leaves the
\* elements the first call matched as they are, and leaves the whole
\* document as it is unless the selector now matches further elements.
C18_MatchedStayPrioritized ==
  \A k \in 1..Len(imgLog) :
    LET c == imgLog[k]
        M == IF Valid(c.selector) THEN querySelectorAll(c.selector, c.before)
                                  ELSE {}
    IN /\ c.threw <=> ~Valid(c.selector)
       /\ \A e \in M : c.after[e] = [loading |-> "eager",
                                     fetchpriority |-> "high"]
       /\ \A e \in Imgs \ M : c.after[e] = c.before[e]
       /\ Repeated(k) =>
            /\ \A e \in M : imgLog[k + 1].after[e] = c.after[e]
            /\ querySelectorAll(c.selector, c.after) \subseteq M
                 => imgLog[k + 1].after = c.after

\* The second call with the sibling selector found a further element to
\* change, the one after the element the first call had changed.
C18_Witness ==
  /\ Len(imgLog) = 2
  /\ imgLog[1].selector = "[fetchpriority=high] + img"
  /\ imgLog[2].selector = imgLog[1].selector
  /\ imgLog[1].after # imgLog[1].before
  /\ imgLog[2].after # imgLog[1].after
  /\ images = imgLog[2].after

\* ------------------------------------- claims on concurrent iterations
\* C20: while a splitLongIteration() call is inside a chunk (between two
\* awaits) the only steps taken are its own: no other iteration moves, no
\* continuation of another caller is resumed and no host callback runs;
\* the deadline of a call changes only when that call starts or is
\* resumed from its own yield, when it becomes performance.now() + limit
\* with the call's own limit.
C20_ChunksDoNotInterleave ==
  [][\A k \in IterIds :
       /\ iteration[k].pc = "check" =>
            /\ \A j \in IterIds \ {k} : iteration'[j] = iteration[j]
            /\ contRuns' = contRuns
            /\ lastOp'.n = k
            /\ lastOp'.op \in {"iterCall", "iterDone", "iterYieldVisible",
                               "iterYieldHidden"}
       /\ iteration'[k].deadline # iteration[k].deadline =>
            /\ lastOp'.n = k
            /\ lastOp'.op \in {"iterate", "iterResume"}
       /\ (lastOp'.op = "iterResume" /\ lastOp'.n = k) =>
            iteration'[k].deadline = Plus(clock, iteration[k].limit)]_vars

\* The first call is suspended in its yield while the second, started
\* later with another limit, is inside a chunk after its first element;
\* the two deadlines differ.
C20_Witness ==
  /\ iteration[1].pc = "await" /\ iteration[1].fnLog = <<1>>
  /\ iteration[2].pc = "check" /\ iteration[2].idx = 2
  /\ iteration[2].fnLog = <<1>> /\ iteration[2].yieldedAt = <<>>
  /\ iteration[1].limit # iteration[2].limit
  /\ iteration[1].deadline # iteration[2].deadline

\* C21: a forced-resume sweep resolves all pending yields in one synchronous
\* pass, in registry order, which is the order of their yieldUnlessUrgent()
\* calls; the continuations of the yields one sweep resumed run in request
\* order among callers that await the same way.
C21_SweepResumesInRequestOrder ==
  /\ lastOp.op = "cleanup"
       => /\ Pending = {}
          /\ pendingResolvers = <<>>
          /\ {microtasks[n].y : n \in 1..Len(microtasks)} = lastSweep
          /\ \A m, n \in 1..Len(microtasks) :
               m < n => microtasks[m].y < microtasks[n].y
  /\ \A i, j \in lastSweep :
       (/\ i < j
        /\ HopsPending(kind[i]) = HopsPending(kind[j])
        /\ contRuns[j] >= 1) => contRuns[i] >= 1

\* One sweep resumed two callers of splitLongTask(); the continuation of
\* the one that asked first has run, the other is still queued.
C21_Witness ==
  /\ {1, 2} \subseteq lastSweep
  /\ kind[1] = "split"
  /\ kind[2] = "split"
  /\ contRuns[1] = 1
  /\ contRuns[2] = 0
  /\ \E n \in 1..Len(microtasks) : microtasks[n].y = 2

\* C21 as stated: the continuations of the yields one sweep resumed run in
\* the order the yields were requested, however their callers await.
C21_ContinuationsInRequestOrder ==
  \A i, j \in lastSweep : (i < j /\ contRuns[j] >= 1) => contRuns[i] >= 1

\* C22: the lifecycle listeners of a call are one-shot.  They are registered
\* only by the call itself; the closure runs only while it is registered
\* and unregisters itself from visibilitychange and from pagehide in the
\* step in which it sweeps, so it runs at most once; and once a dispatch has
\* invoked its last listener, no listener registered before the event is
\* left (the ones left belong to calls made during the dispatch).
C22_ListenersAreOneShot ==
  [][/\ \A t \in EventTypes : \A i \in YieldIds :
          (i \in Range(listeners'[t]) /\ i \notin Range(listeners[t]))
            => (promise[i] = "none" /\ promise'[i] = "pending")
     /\ lastOp'.op # "skipped"
     /\ dispatch'.ran = dispatch.ran + 1
          => LET c == Head(dispatch.queue)
             IN /\ \A t \in EventTypes :
                     /\ c \in Range(listeners[t])
                     /\ c \notin Range(listeners'[t])
                     /\ \A i \in Range(listeners'[t]) :
                          i \in Range(dispatch'.queue) \/ i > c
                /\ Pending' = {}]_vars

\* A pagehide dispatch has invoked the listeners of both calls made before
\* it; the listener left belongs to the yield the first continuation made
\* between the two invocations.
C22_Witness ==
  /\ lastOp.op = "cleanup"
  /\ lastOp.y = 2
  /\ dispatch.queue = <<>>
  /\ dispatch.ran = 2
  /\ listeners["pagehide"] = <<3>>
  /\ listeners["visibilitychange"] = <<3>>

\* C23: registry discipline.  A resolver enters pendingResolvers only in
\* the call that creates it; it leaves only in a step that also calls it,
\* leaving its promise resolved; a call that leaves its promise pending,
\* a call made by a continuation that a sweep resumed included, leaves its
\* resolver registered; so every pending yield has its resolver in the
\* registry and no wake-up is lost.
C23_RegistryDiscipline ==
  [][/\ \A i \in YieldIds :
          /\ (i \in Range(pendingResolvers') /\ i \notin Range(pendingResolvers))
               => promise[i] = "none"
          /\ (i \in Range(pendingResolvers) /\ i \notin Range(pendingResolvers'))
               => /\ promise'[i] = "resolved"
                  /\ resolveCalls'[i] = resolveCalls[i] + 1
          /\ (promise[i] = "none" /\ promise'[i] = "pending")
               => i \in Range(pendingResolvers')
     /\ Pending' \subseteq Range(pendingResolvers')]_vars

\* The only listener of an event swept the registry; the continuation it
\* resumed then yielded again, and the new resolver is registered.
C23_Witness ==
  /\ lastOp.op = "reyieldVisible"
  /\ dispatch.ran = 1
  /\ dispatch.queue = <<>>
  /\ \E i \in lastSweep : kind[i] = "again" /\ contRuns[i] = 1
  /\ pendingResolvers = <<lastOp.y>>
  /\ promise[lastOp.y] = "pending"

\* C24: the frame polyfill, called at clock times that never decrease,
\* computes for each call the fire time max(now, previous fire time + 16),
\* the previous fire time of the first call being the initial `last`, 0; so
\* successive fire times are at least 16 apart, the delay handed to
\* setTimeout is never negative and leads to the computed fire time, and
\* `last` holds the fire time computed by the most recent call.
C24_FramesSixteenApart ==
  [][Len(frameTimers') = Len(frameTimers) + 1
       => LET prev == IF frameTimers = <<>> THEN 0
                      ELSE frameTimers[Len(frameTimers)].arg
              f == frameTimers'[Len(frameTimers')]
          IN /\ date' >= date
             /\ f.arg = (IF date' >= prev + 16 THEN date' ELSE prev + 16)
             /\ f.delay >= 0
             /\ date' + f.delay = f.arg
             /\ frameTimers # <<>> => f.arg - prev >= 16
             /\ last = prev
             /\ last' = f.arg]_vars

\* Three calls: the second came less than 16 after the first fire time and
\* was delayed, the third came later than 16 after the second fire time
\* and fires at once.
C24_Witness ==
  /\ Len(frameTimers) = 3
  /\ frameTimers[2].delay > 0
  /\ frameTimers[2].arg = frameTimers[1].arg + 16
  /\ frameTimers[3].delay = 0
  /\ frameTimers[3].arg > frameTimers[2].arg + 16
  /\ last = frameTimers[3].arg

\* C25: every yield that is still unresolved has its resolver in
\* pendingResolvers and its own closure registered for visibilitychange and
\* for pagehide; so a lifecycle event finds the closure of every pending
\* yield among the listeners it is about to invoke.
C25_PendingYieldsStayReachable ==
  /\ \A i \in Pending :
       /\ i \in Range(pendingResolvers)
       /\ \A t \in EventTypes : i \in Range(listeners[t])
  /\ lastOp.op \in EventTypes => Pending \subseteq Range(dispatch.queue)

\* The timer of the first yield resumed it; the second yield is still
\* pending, registered, and listened for.
C25_Witness ==
  /\ lastOp.op = "timer"
  /\ lastOp.y = 1
  /\ promise[1] = "resolved"
  /\ Pending = {2}
  /\ pendingResolvers = <<2>>
  /\ \A t \in EventTypes : 2 \in Range(listeners[t])

\* C26: a host callback that resumes a yield leaves the registered
\* lifecycle listeners as they are, and between lifecycle events each of
\* the two events has one registered closure per yieldUnlessUrgent() call
\* made on a visible page since the last lifecycle event, whether or not
\* the yield is still pending.
C26_ListenersOutliveResumption ==
  /\ [](dispatch.queue = <<>>
          => \A t \in EventTypes : Len(listeners[t]) = visibleCalls)
  /\ [][(/\ lastOp'.op \in {"timer", "native"}
         /\ promise[lastOp'.y] = "pending"
         /\ promise'[lastOp'.y] = "resolved")
          => /\ listeners' = listeners
             /\ \A t \in EventTypes : lastOp'.y \in Range(listeners'[t])]_vars

\* Two yields were made on a visible page and both were resumed by their
\* timers: no yield is pending and both closures are still registered for
\* both events.
C26_Witness ==
  /\ lastOp.op = "timer"
  /\ lastOp.y = 2
  /\ Pending = {}
  /\ visibleCalls = 2
  /\ \A t \in EventTypes : listeners[t] = <<1, 2>>

====
